---- MODULE Spec2Model ----
(***************************************************************************)
(* Model of tools/create_stack.py: a command-line provisioner that creates *)
(* a group in Warden with one HTTP POST and then registers one monitor per *)
(* input URL with one HTTP POST each.                                      *)
(*                                                                         *)
(* Python strings are modelled as sequences of one-character strings, so   *)
(* that str.replace, str.split, str.rstrip, int() and json.dumps/json.load *)
(* are computed character by character.  A call of urllib's urlopen is one *)
(* request put on the wire followed by exactly one outcome: a response     *)
(* (2xx), an HTTPError (any other final status) or another exception       *)
(* (URLError, connection reset, ...).                                      *)
(***************************************************************************)
EXTENDS Integers, Sequences, FiniteSets, TLC

VARIABLES
    argv,       \* the command line: key, group, urls and the optional host / interval
    args,       \* argparse's Namespace (defaults applied, --interval converted)
    base_url,   \* args.host.rstrip('/')
    pc,         \* position of main(): "create_group", "group_wait", "loop", "monitor_wait", "exited"
    group_id,   \* the local variable group_id; <<>> while unbound, <<v>> once assigned
    idx,        \* position of the for loop in args.urls (1-based)
    sent,       \* every request handed to urlopen, in order
    inflight,   \* requests handed to urlopen whose outcome has not arrived yet
    group_reply,\* what the network answered to the group request; <<>> before that
    results,    \* per URL, in order, how its monitor request ended
    out,        \* the lines printed to standard output (as tags)
    exit_code   \* the process exit status; <<>> while running, <<c>> once exited

vars == <<argv, args, base_url, pc, group_id, idx, sent, inflight,
          group_reply, results, out, exit_code>>

----------------------------------------------------------------------------
(* Bounds of the model *)

\* longest --urls list explored by Spec and FairSpec
MaxUrls == 2
\* number of fragments a generated URL of NameSpec is concatenated from
MaxParts == 3

----------------------------------------------------------------------------
(* Program constants *)

DefaultInterval == 60
Created == 201

DefaultHost ==
    <<"h", "t", "t", "p", ":", "/", "/", "l", "o", "c", "a", "l", "h", "o", "s", "t", ":", "9", "0", "9", "0">>
HTTPS == <<"h", "t", "t", "p", "s", ":", "/", "/">>
HTTP == <<"h", "t", "t", "p", ":", "/", "/">>
GroupsPath == <<"/", "a", "p", "i", "/", "g", "r", "o", "u", "p", "s">>
MonitorsPath == <<"/", "a", "p", "i", "/", "m", "o", "n", "i", "t", "o", "r", "s">>

----------------------------------------------------------------------------
(* Python str operations *)

StartsWith(s, p) == Len(s) >= Len(p) /\ SubSeq(s, 1, Len(p)) = p

\* s.replace(old, ""): leftmost, non-overlapping occurrences of old are removed
RECURSIVE ReplaceEmpty(_, _)
ReplaceEmpty(s, old) ==
    IF Len(s) < Len(old) THEN s
    ELSE IF StartsWith(s, old)
         THEN ReplaceEmpty(SubSeq(s, Len(old) + 1, Len(s)), old)
         ELSE <<Head(s)>> \o ReplaceEmpty(Tail(s), old)

\* s.split(sep)[0]: everything before the first sep, all of s when there is none
RECURSIVE SplitFirst(_, _)
SplitFirst(s, sep) ==
    IF s = <<>> \/ Head(s) = sep THEN <<>>
    ELSE <<Head(s)>> \o SplitFirst(Tail(s), sep)

\* s.rstrip(ch)
RECURSIVE RStrip(_, _)
RStrip(s, ch) ==
    IF s # <<>> /\ s[Len(s)] = ch THEN RStrip(SubSeq(s, 1, Len(s) - 1), ch) ELSE s

Digits == <<"0", "1", "2", "3", "4", "5", "6", "7", "8", "9">>
DigitOf(c) == (CHOOSE d \in 1..10 : Digits[d] = c) - 1
IsDigits(s) == s # <<>> /\ \A k \in 1..Len(s) : \E d \in 1..10 : Digits[d] = s[k]

\* int(s) for a string of decimal digits
RECURSIVE StrToInt(_)
StrToInt(s) ==
    IF s = <<>> THEN 0
    ELSE 10 * StrToInt(SubSeq(s, 1, Len(s) - 1)) + DigitOf(s[Len(s)])

\* str(n) for n >= 0
RECURSIVE IntToStr(_)
IntToStr(n) ==
    IF n < 10 THEN <<Digits[n + 1]>>
    ELSE IntToStr(n \div 10) \o <<Digits[(n % 10) + 1]>>

----------------------------------------------------------------------------
(* Python values that travel through json.load and json.dumps *)

PyStr(s) == [t |-> "str", v |-> s]
PyInt(n) == [t |-> "int", v |-> n]
PyFloat(n, k) == [t |-> "float", num |-> n, scale |-> k]    \* n / 10^k
PyBool(b) == [t |-> "bool", v |-> b]
PyNone == [t |-> "NoneType"]

NullTok == <<"n", "u", "l", "l">>
TrueTok == <<"t", "r", "u", "e">>
FalseTok == <<"f", "a", "l", "s", "e">>

RECURSIVE Zeros(_)
Zeros(k) == IF k <= 0 THEN <<>> ELSE <<"0">> \o Zeros(k - 1)

\* float.__repr__ of n / 10^k, with n % 10 # 0 or k = 0 (short decimals print as written)
FloatRepr(n, k) ==
    IF k = 0 THEN IntToStr(n) \o <<".", "0">>
    ELSE LET d == IntToStr(n)
             p == Zeros(k + 1 - Len(d)) \o d
         IN  SubSeq(p, 1, Len(p) - k) \o <<".">> \o SubSeq(p, Len(p) - k + 1, Len(p))

\* the float a decimal literal n / 10^k denotes: trailing zeros carry no value
RECURSIVE MakeFloat(_, _)
MakeFloat(n, k) ==
    IF k > 0 /\ n % 10 = 0 THEN MakeFloat(n \div 10, k - 1) ELSE PyFloat(n, k)

\* json.dumps of a scalar; characters that need escaping are not in the alphabet
JsonDumps(x) ==
    CASE x.t = "str" -> <<"\"">> \o x.v \o <<"\"">>
      [] x.t = "int" -> IntToStr(x.v)
      [] x.t = "float" -> FloatRepr(x.num, x.scale)
      [] x.t = "bool" -> IF x.v THEN TrueTok ELSE FalseTok
      [] x.t = "NoneType" -> NullTok

PointAt(tok) == CHOOSE k \in 1..Len(tok) : tok[k] = "."
IsDecimal(tok) ==
    /\ \E k \in 1..Len(tok) : tok[k] = "."
    /\ IsDigits(SubSeq(tok, 1, PointAt(tok) - 1))
    /\ IsDigits(SubSeq(tok, PointAt(tok) + 1, Len(tok)))

\* json.loads of a scalar token of a valid JSON document
JsonLoads(tok) ==
    CASE tok = NullTok -> PyNone
      [] tok = TrueTok -> PyBool(TRUE)
      [] tok = FalseTok -> PyBool(FALSE)
      [] Len(tok) >= 2 /\ Head(tok) = "\"" /\ tok[Len(tok)] = "\"" ->
            PyStr(SubSeq(tok, 2, Len(tok) - 1))
      [] IsDigits(tok) -> PyInt(StrToInt(tok))
      [] IsDecimal(tok) ->
            LET p == PointAt(tok)
            IN  MakeFloat(StrToInt(SubSeq(tok, 1, p - 1) \o SubSeq(tok, p + 1, Len(tok))),
                          Len(tok) - p)

\* json.dumps(data) of a dict of scalars: the members as written on the wire
JsonDumpsDict(data) == [k \in DOMAIN data |-> JsonDumps(data[k])]

\* A response body is text that is not JSON ("garbage"), a body whose read fails
\* part-way ("broken"), a JSON array, or a JSON object whose members are scalar
\* tokens.
Returned(v) == [exc |-> "none", val |-> v]
Raised(e) == [exc |-> e]

\* json.load(response)
JsonLoad(body) ==
    CASE body.kind = "garbage" -> Raised("JSONDecodeError")
      [] body.kind = "broken" -> Raised("IncompleteRead")
      [] body.kind = "array" -> Returned([t |-> "list"])
      [] body.kind = "object" ->
            Returned([t |-> "dict",
                      v |-> [k \in DOMAIN body.members |-> JsonLoads(body.members[k])]])

\* obj[key]
GetItem(obj, key) ==
    IF obj.t # "dict" THEN Raised("TypeError")
    ELSE IF key \in DOMAIN obj.v THEN Returned(obj.v[key])
    ELSE Raised("KeyError")

----------------------------------------------------------------------------
(* Inputs: command lines and what the network may answer *)

Keys == {"k1", "k2"}
GroupNames == {<<"g">>}
\* --host: absent, or given with trailing slashes
HostArgs == {<<>>, <<<<"h", "t", "t", "p", ":", "/", "/", "w", "/", "/">>>>}
\* --interval: absent, or a decimal number
IntervalArgs == {<<>>, << <<"3", "0">> >>}
UrlPool == {<<"h", "t", "t", "p", "s", ":", "/", "/", "s", "1", "/", "h">>,
            <<"h", "t", "t", "p", ":", "/", "/", "s", "2">>}

UrlLists(pool, n) == UNION {[1..k -> pool] : k \in 1..n}

UrlFragments == {HTTP, HTTPS, <<"a">>, <<"/">>}
RECURSIVE Concats(_)
Concats(k) ==
    IF k = 0 THEN {<<>>}
    ELSE LET P == Concats(k - 1) IN P \cup {p \o f : p \in P, f \in UrlFragments}
GenUrls == Concats(MaxParts)

CommandLines ==
    [key : Keys, group : GroupNames, urls : UrlLists(UrlPool, MaxUrls),
     host : HostArgs, interval : IntervalArgs]
NameCommandLines ==
    [key : {"k1"}, group : GroupNames, urls : {<<u>> : u \in GenUrls},
     host : {<<>>}, interval : {<<>>}]

\* statuses urlopen returns as a response, and statuses it raises as HTTPError
ResponseStatuses == {200, 201}
ErrorStatuses == {400, 500}

IdTokens == {<<"7">>, <<"\"", "g", "1", "\"">>, NullTok, TrueTok,
             <<"1", ".", "5", "0">>}
GroupBodies ==
    {[kind |-> "garbage"], [kind |-> "broken"], [kind |-> "array"],
     [kind |-> "object", members |-> [name |-> <<"\"", "g", "\"">>]]}
    \cup {[kind |-> "object", members |-> [id |-> tok, name |-> <<"\"", "g", "\"">>]] :
            tok \in IdTokens}

----------------------------------------------------------------------------
(* The program *)

\* parser.parse_args(): defaults applied, --interval converted with int()
ParseArgs(av) ==
    [host |-> IF av.host = <<>> THEN DefaultHost ELSE av.host[1],
     key |-> av.key,
     group |-> av.group,
     urls |-> av.urls,
     interval |-> IF av.interval = <<>> THEN DefaultInterval
                  ELSE StrToInt(av.interval[1])]

\* variant: the credential is left out of the headers
create_request_NoAuth(url, data, api_key) ==
    [full_url |-> url,
     data |-> JsonDumpsDict(data),
     headers |-> ("Content-Type" :> "application/json"),
     method |-> "POST"]

create_request(url, data, api_key) ==
    [full_url |-> url,
     data |-> JsonDumpsDict(data),
     headers |-> ("Content-Type" :> "application/json")
                 @@ ("Authorization" :> ("Bearer " \o api_key)),
     method |-> "POST"]

\* variant: any 2xx status is taken for success
GroupStatusOk_Any2xx(status) == status \in 200..299

\* if response.status != 201: ... sys.exit(1)
GroupStatusOk(status) == status = Created

\* variant: group_id = group_data.get('id'), a missing key gives None
ExtractGroupId_Get(body) ==
    LET group_data == JsonLoad(body)
    IN  IF group_data.exc # "none" THEN group_data
        ELSE IF group_data.val.t # "dict" THEN Raised("AttributeError")
        ELSE IF "id" \in DOMAIN group_data.val.v THEN Returned(group_data.val.v["id"])
        ELSE Returned(PyNone)

\* variant: group_id = str(group_data['id'])
ExtractGroupId_Str(body) ==
    LET group_data == JsonLoad(body)
        item == IF group_data.exc # "none" THEN group_data
                ELSE GetItem(group_data.val, "id")
    IN  IF item.exc # "none" THEN item
        ELSE IF item.val.t = "str" THEN item
        ELSE Returned(PyStr(JsonDumps(item.val)))

\* group_data = json.load(response); group_id = group_data['id']
ExtractGroupId(body) ==
    LET group_data == JsonLoad(body)
    IN  IF group_data.exc # "none" THEN group_data
        ELSE GetItem(group_data.val, "id")

\* variant: for url in reversed(args.urls)
LoopUrls_Reversed == [k \in 1..Len(args.urls) |-> args.urls[Len(args.urls) + 1 - k]]

\* variant: repeated URLs are visited once
RECURSIVE Dedup(_)
Dedup(us) ==
    IF us = <<>> THEN <<>>
    ELSE LET front == Dedup(SubSeq(us, 1, Len(us) - 1))
             last == us[Len(us)]
         IN  IF \E k \in 1..Len(front) : front[k] = last THEN front
             ELSE Append(front, last)
LoopUrls_Dedup == Dedup(args.urls)

\* for url in args.urls
LoopUrls == args.urls

\* name = url.replace("https://", "").replace("http://", "").split("/")[0]
DeriveName(url) == SplitFirst(ReplaceEmpty(ReplaceEmpty(url, HTTPS), HTTP), "/")

\* variant: the interval of the payload is the default, whatever --interval says
MonitorPayload_FixedInterval(name, url, gid, interval) ==
    [name |-> PyStr(name), url |-> PyStr(url), groupId |-> gid,
     interval |-> PyInt(DefaultInterval)]

MonitorPayload(name, url, gid, interval) ==
    [name |-> PyStr(name), url |-> PyStr(url), groupId |-> gid,
     interval |-> PyInt(interval)]

\* variant: the exit status reports whether any monitor failed
FinishExitCode_FailOnError ==
    IF \E k \in 1..Len(results) : results[k] # "added" THEN 1 ELSE 0

\* falling off the end of main(): the interpreter exits with status 0
FinishExitCode == 0

\* sys.exit(code), or an exception nothing handles (the interpreter exits with 1)
Exit(code) ==
    /\ pc' = "exited"
    /\ exit_code' = <<code>>

Urlopen(req) ==
    /\ sent' = Append(sent, req)
    /\ inflight' = inflight \cup {Len(sent) + 1}

Answered == inflight' = inflight \ {Len(sent)}

InitFrom(lines) ==
    /\ argv \in lines
    /\ args = ParseArgs(argv)
    /\ base_url = RStrip(args.host, "/")
    /\ pc = "create_group"
    /\ group_id = <<>>
    /\ idx = 0
    /\ sent = <<>>
    /\ inflight = {}
    /\ group_reply = <<>>
    /\ results = <<>>
    /\ out = <<"target", "creating_group">>
    /\ exit_code = <<>>

Init == InitFrom(CommandLines)
InitName == InitFrom(NameCommandLines)

SendGroup ==
    /\ pc = "create_group"
    /\ Urlopen(create_request(base_url \o GroupsPath, [name |-> PyStr(args.group)],
                              args.key))
    /\ pc' = "group_wait"
    /\ UNCHANGED <<argv, args, base_url, group_id, idx, group_reply, results, out,
                   exit_code>>

GroupResponse(status, body) ==
    /\ pc = "group_wait"
    /\ Answered
    /\ group_reply' = <<[kind |-> "response", status |-> status, body |-> body]>>
    /\ IF ~GroupStatusOk(status)
       THEN /\ out' = Append(out, "group_failed_status")
            /\ Exit(1)
            /\ UNCHANGED <<group_id, idx>>
       ELSE LET r == ExtractGroupId(body)
            IN  IF r.exc = "none"
                THEN /\ group_id' = <<r.val>>
                     /\ out' = out \o <<"group_created", "adding_monitors">>
                     /\ idx' = 1
                     /\ pc' = "loop"
                     /\ UNCHANGED exit_code
                ELSE /\ out' = Append(out, "error")
                     /\ Exit(1)
                     /\ UNCHANGED <<group_id, idx>>
    /\ UNCHANGED <<argv, args, base_url, sent, results>>

\* except urllib.error.HTTPError: e.read().decode() either returns or raises in
\* the handler, where nothing catches it
GroupHTTPError(code, readable) ==
    /\ pc = "group_wait"
    /\ Answered
    /\ group_reply' = <<[kind |-> "http_error", status |-> code]>>
    /\ out' = out \o <<"group_http_error", IF readable THEN "error_body" ELSE "traceback">>
    /\ Exit(1)
    /\ UNCHANGED <<argv, args, base_url, group_id, idx, sent, results>>

GroupException ==
    /\ pc = "group_wait"
    /\ Answered
    /\ group_reply' = <<[kind |-> "exception"]>>
    /\ out' = Append(out, "error")
    /\ Exit(1)
    /\ UNCHANGED <<argv, args, base_url, group_id, idx, sent, results>>

SendMonitor ==
    /\ pc = "loop"
    /\ idx <= Len(LoopUrls)
    /\ IF group_id = <<>>
       THEN \* reading an unbound local raises outside the try block
            /\ out' = Append(out, "traceback")
            /\ Exit(1)
            /\ UNCHANGED <<sent, inflight>>
       ELSE LET url == LoopUrls[idx]
                name == DeriveName(url)
                payload == MonitorPayload(name, url, group_id[1], args.interval)
            IN  /\ Urlopen(create_request(base_url \o MonitorsPath, payload, args.key))
                /\ pc' = "monitor_wait"
                /\ UNCHANGED <<out, exit_code>>
    /\ UNCHANGED <<argv, args, base_url, group_id, idx, group_reply, results>>

MonitorDone(result) ==
    /\ Answered
    /\ results' = Append(results, result)
    /\ out' = Append(out, result)
    /\ idx' = idx + 1
    /\ pc' = "loop"
    /\ UNCHANGED <<argv, args, base_url, group_id, sent, group_reply, exit_code>>

MonitorResponse(status) ==
    /\ pc = "monitor_wait"
    /\ MonitorDone(IF status = Created THEN "added" ELSE "failed_status")

\* variant: an HTTPError for one monitor ends the run
MonitorHTTPError_Fatal(code) ==
    /\ pc = "monitor_wait"
    /\ Answered
    /\ results' = Append(results, "failed_http_error")
    /\ out' = Append(out, "failed_http_error")
    /\ Exit(1)
    /\ UNCHANGED <<argv, args, base_url, group_id, idx, sent, group_reply>>

MonitorHTTPError(code) ==
    /\ pc = "monitor_wait"
    /\ MonitorDone("failed_http_error")

MonitorException ==
    /\ pc = "monitor_wait"
    /\ MonitorDone("error")

Finish ==
    /\ pc = "loop"
    /\ idx > Len(LoopUrls)
    /\ out' = Append(out, "done")
    /\ Exit(FinishExitCode)
    /\ UNCHANGED <<argv, args, base_url, group_id, idx, sent, inflight, group_reply,
                   results>>

Next ==
    \/ SendGroup
    \/ \E status \in ResponseStatuses, body \in GroupBodies : GroupResponse(status, body)
    \/ \E code \in ErrorStatuses, readable \in BOOLEAN : GroupHTTPError(code, readable)
    \/ GroupException
    \/ SendMonitor
    \/ \E status \in ResponseStatuses : MonitorResponse(status)
    \/ \E code \in ErrorStatuses : MonitorHTTPError(code)
    \/ MonitorException
    \/ Finish

Spec == Init /\ [][Next]_vars
NameSpec == InitName /\ [][Next]_vars
\* urlopen blocks until the call returns or raises, and the interpreter keeps
\* running the single thread: every enabled step is eventually taken
FairSpec == Init /\ [][Next]_vars /\ WF_vars(Next)

----------------------------------------------------------------------------
(* What an observer of the wire and of the process sees *)

IsMonitorRequest(r) == r.full_url = base_url \o MonitorsPath
IsGroupRequest(r) == r.full_url = base_url \o GroupsPath
MonitorRequests == SelectSeq(sent, IsMonitorRequest)
NumMonitors == Len(MonitorRequests)

Exited == pc = "exited"
ExitedNonZero == Exited /\ exit_code # <<>> /\ exit_code # <<0>>

GroupAnswered == group_reply # <<>>
GroupGot201 ==
    /\ GroupAnswered
    /\ group_reply[1].kind = "response"
    /\ group_reply[1].status = 201
HasId(body) == body.kind = "object" /\ "id" \in DOMAIN body.members
\* the group was created: 201 with a JSON object that has an id
GroupCreated == GroupGot201 /\ HasId(group_reply[1].body)
\* a non-201 status, an HTTP error or a transport error
GroupRejected == GroupAnswered /\ ~GroupGot201

UrlOf(r) == JsonLoads(r.data.url)
NameOf(r) == JsonLoads(r.data.name)
SomeFailed == \E k \in 1..Len(results) : results[k] # "added"
AllFailed == \A k \in 1..Len(results) : results[k] # "added"

----------------------------------------------------------------------------
(* Claims *)

\* C1: when the group POST is answered with a non-201 status, an HTTP error
\* or a transport error, no POST to /api/monitors is ever sent and the process
\* has exited with a non-zero status.
C1_GroupFailureIsFatal ==
    GroupRejected => (NumMonitors = 0 /\ ExitedNonZero /\ Len(sent) = 1)

C1_Witness ==
    /\ GroupAnswered
    /\ group_reply[1].kind = "response"
    /\ group_reply[1].status = 200
    /\ HasId(group_reply[1].body)
    /\ ExitedNonZero

\* C2: once the group is created, a monitor POST is attempted for every URL of
\* the list, whatever the outcomes of the earlier ones: the run does not end
\* before every URL has had its request, and at the end request k carries URL k.
C2_MonitorFailuresIsolated ==
    GroupCreated =>
        /\ Exited => Len(results) = Len(argv.urls)
        /\ Exited => NumMonitors = Len(argv.urls)
        /\ \A k \in 1..Len(results) :
              k <= NumMonitors /\ UrlOf(MonitorRequests[k]) = PyStr(argv.urls[k])

C2_Witness ==
    /\ GroupCreated
    /\ Exited
    /\ Len(results) >= 2
    /\ results[1] # "added"
    /\ NumMonitors = Len(argv.urls)

\* C3: the exit status is 0 exactly when the group was created, however many
\* monitors failed; it is non-zero when group creation failed or raised.
C3_ExitCode ==
    Exited => /\ exit_code # <<>>
              /\ GroupAnswered
              /\ (exit_code = <<0>>) <=> GroupCreated

C3_Witness ==
    /\ Exited
    /\ exit_code = <<0>>
    /\ Len(results) >= 2
    /\ AllFailed

\* C4: the id of the group response is the groupId of every monitor payload:
\* the value on the wire decodes to the value the response carried, whatever
\* its JSON type, and it is the same for every monitor.
C4_GroupIdVerbatim ==
    /\ group_id # <<>> =>
          GroupCreated /\ group_id[1] = JsonLoads(group_reply[1].body.members.id)
    /\ \A k \in 1..NumMonitors :
          /\ GroupCreated
          /\ "groupId" \in DOMAIN MonitorRequests[k].data
          /\ JsonLoads(MonitorRequests[k].data.groupId)
                = JsonLoads(group_reply[1].body.members.id)

C4_Witness ==
    /\ NumMonitors >= 2
    /\ group_reply[1].body.members.id = <<"1", ".", "5", "0">>
    /\ MonitorRequests[2].data.groupId = <<"1", ".", "5">>

\* the name the specification describes: a leading http:// or https:// removed,
\* then cut at the first "/"
LeadingSchemeStripped(url) ==
    IF StartsWith(url, HTTP) THEN SubSeq(url, Len(HTTP) + 1, Len(url))
    ELSE IF StartsWith(url, HTTPS) THEN SubSeq(url, Len(HTTPS) + 1, Len(url))
    ELSE url
DocumentedName(url) == SplitFirst(LeadingSchemeStripped(url), "/")

\* C5: the name of every monitor payload is its URL with a leading http:// or
\* https:// removed (only a leading one) and cut at the first "/" thereafter,
\* also for URLs without a scheme or with a scheme elsewhere than at the start.
C5_NameIsLeadingSchemeStripped ==
    \A k \in 1..NumMonitors :
        NameOf(MonitorRequests[k]) = PyStr(DocumentedName(UrlOf(MonitorRequests[k]).v))

\* C6: at most one request is outstanding; the group POST is the first request
\* and has been answered with success before any monitor POST; monitor POSTs
\* follow the order of the URL list, each sent after the outcome of the one
\* before it.
C6_StrictlySequential ==
    /\ Cardinality(inflight) <= 1
    /\ inflight \subseteq {Len(sent)}
    /\ Len(sent) = (IF GroupAnswered THEN 1 ELSE 0) + Len(results) + Cardinality(inflight)
    /\ \A k \in 1..Len(sent) : IF k = 1 THEN IsGroupRequest(sent[k])
                               ELSE IsMonitorRequest(sent[k])
    /\ NumMonitors > 0 => GroupCreated
    /\ NumMonitors <= Len(argv.urls)
    /\ \A k \in 1..NumMonitors : UrlOf(MonitorRequests[k]) = PyStr(argv.urls[k])

C6_Witness ==
    /\ NumMonitors = 2
    /\ inflight = {3}
    /\ Len(results) = 1
    /\ argv.urls[1] # argv.urls[2]

\* C7: every monitor payload carries the interval given with --interval, or 60
\* when --interval is absent, and the input URL unmodified as its url.
C7_IntervalAndUrl ==
    \A k \in 1..NumMonitors :
        /\ JsonLoads(MonitorRequests[k].data.interval)
              = PyInt(IF argv.interval = <<>> THEN 60 ELSE StrToInt(argv.interval[1]))
        /\ k <= Len(argv.urls)
        /\ MonitorRequests[k].data.url = <<"\"">> \o argv.urls[k] \o <<"\"">>

C7_Witness ==
    /\ NumMonitors >= 2
    /\ argv.interval = <<>>
    /\ MonitorRequests[2].data.interval = <<"6", "0">>

\* C8: every request sent is a POST with Content-Type: application/json and
\* Authorization: Bearer <key>, with the key given by --key.
C8_Headers ==
    \A k \in 1..Len(sent) :
        /\ sent[k].method = "POST"
        /\ DOMAIN sent[k].headers = {"Content-Type", "Authorization"}
        /\ sent[k].headers["Content-Type"] = "application/json"
        /\ sent[k].headers["Authorization"] = "Bearer " \o argv.key

C8_Witness ==
    /\ Len(sent) >= 3
    /\ argv.key = "k2"
    /\ sent[3].headers["Authorization"] = "Bearer k2"

\* C9: a 201 answer to the group POST whose body is not JSON or has no id is
\* fatal: the process has exited non-zero and no monitor POST is sent; no
\* monitor request exists without a bound group_id.
C9_MissingIdIsFatal ==
    /\ (GroupGot201 /\ ~HasId(group_reply[1].body)) =>
          (ExitedNonZero /\ NumMonitors = 0)
    /\ (NumMonitors > 0 \/ pc \in {"loop", "monitor_wait"}) => group_id # <<>>

C9_Witness ==
    /\ GroupGot201
    /\ group_reply[1].body.kind = "object"
    /\ ~HasId(group_reply[1].body)
    /\ ExitedNonZero

RequestsExact ==
    /\ Len(sent) <= 1 + Len(argv.urls)
    /\ Exited => Len(sent) = (IF GroupCreated THEN 1 + Len(argv.urls) ELSE 1)
    /\ Exited => inflight = {}

\* C10: every run terminates, having sent exactly one request when group
\* creation failed and exactly 1 + N requests when it succeeded, N the length
\* of the URL list with repeated URLs counted; never more at any moment.
C10_TerminatesWithExactRequests == <>Exited /\ []RequestsExact

C10_Witness ==
    /\ Exited
    /\ GroupCreated
    /\ Len(argv.urls) = 2
    /\ argv.urls[1] = argv.urls[2]
    /\ Len(sent) = 3
    /\ SomeFailed

====
